---- MODULE Spec2Model ----
(***************************************************************************)
(* pass-age: the age of every secret of a password store, read from the   *)
(* porcelain output of `git blame -pL ,1` (src/src/main.rs), with the     *)
(* command line declared in src/src/args.rs.                              *)
(*                                                                         *)
(* One run of main is modelled: the pre-flight checks, the expansion of   *)
(* the target arguments into glob patterns, the collection loop (one      *)
(* history query and one parse per discovered file), the sort, the        *)
(* reversal and the render loop.  Text is modelled as sequences of         *)
(* one-character strings so that starts_with, split_ascii_whitespace and  *)
(* the "%s" parse are computed, not assumed.                               *)
(***************************************************************************)
EXTENDS Integers, Sequences, FiniteSets, TLC

VARIABLES
    args,          \* the parsed command line (Args)
    env,           \* what the pre-flight checks will find
    blame,         \* the store: per file, what the history query answers
    now,           \* Utc::now()
    pc,            \* main's position
    search_paths,  \* Vec<String> of glob patterns still to search
    entries,       \* the rest of the current glob iterator, after take(5)
    data,          \* Vec<BlameData>
    stdout,        \* lines printed with println!
    stderr,        \* lines printed with eprintln!
    queries        \* the git commands issued, in order

vars == <<args, env, blame, now, pc, search_paths, entries, data, stdout,
          stderr, queries>>

----------------------------------------------------------------------------
(* Bounds of the model. *)

\* longest raw query output, in lines, of the one-file stores
MaxLines == 3
\* largest store whose files answer with any of the CoreOutputs
MaxRichFiles == 2
\* largest store; beyond TakeLimit so that a pattern can match more files
\* than the collection loop takes
MaxFiles == 6

\* main.rs:230  .take(5)
TakeLimit == 5

----------------------------------------------------------------------------
(* Text. *)

AUTHOR_TIME == <<"a","u","t","h","o","r","-","t","i","m","e">>
PREVIOUS == <<"p","r","e","v","i","o","u","s">>
SP == <<" ">>

\* str::starts_with
StartsWith(line, prefix) ==
    /\ Len(line) >= Len(prefix)
    /\ SubSeq(line, 1, Len(prefix)) = prefix

IsAsciiWhitespace(c) == c \in {" ", "\t"}

\* str::split_ascii_whitespace: the maximal runs of non-whitespace characters
RECURSIVE SplitFrom(_, _, _)
SplitFrom(line, i, cur) ==
    IF i > Len(line)
    THEN IF cur = <<>> THEN <<>> ELSE <<cur>>
    ELSE IF IsAsciiWhitespace(line[i])
         THEN IF cur = <<>>
              THEN SplitFrom(line, i + 1, <<>>)
              ELSE <<cur>> \o SplitFrom(line, i + 1, <<>>)
         ELSE SplitFrom(line, i + 1, Append(cur, line[i]))

SplitAsciiWhitespace(line) == SplitFrom(line, 1, <<>>)

IsDigit(c) == c \in {"0","1","2","3","4","5","6","7","8","9"}

DigitValue(c) ==
    CASE c = "0" -> 0 [] c = "1" -> 1 [] c = "2" -> 2 [] c = "3" -> 3
      [] c = "4" -> 4 [] c = "5" -> 5 [] c = "6" -> 6 [] c = "7" -> 7
      [] c = "8" -> 8 [] c = "9" -> 9

RECURSIVE DecimalValue(_)
DecimalValue(tok) ==
    IF tok = <<>> THEN 0
    ELSE 10 * DecimalValue(SubSeq(tok, 1, Len(tok) - 1)) + DigitValue(tok[Len(tok)])

\* NaiveDateTime::parse_from_str(author_time, "%s"): the whole token must be
\* a run of decimal digits (unsigned tokens only are drawn by the model).
ParseTimestamp(tok) ==
    IF tok # <<>> /\ \A i \in 1..Len(tok) : IsDigit(tok[i])
    THEN [ok |-> TRUE, value |-> DecimalValue(tok)]
    ELSE [ok |-> FALSE]

----------------------------------------------------------------------------
(* Option values, paths and the Age Record. *)

None == [some |-> FALSE]
Some(v) == [some |-> TRUE, value |-> v]

\* a file of the store, "<stem>.gpg"; stems are ordered as their names are
GpgFile(k) == [stem |-> k, ext |-> <<"gpg">>]

\* Path::with_extension(""): drops the last extension
WithExtensionEmpty(p) ==
    [stem |-> p.stem,
     ext |-> IF p.ext = <<>> THEN <<>> ELSE SubSeq(p.ext, 1, Len(p.ext) - 1)]

\* main.rs:35-36  "Paths need the .gpg added back on"
PushGpg(p) == [stem |-> p.stem, ext |-> Append(p.ext, "gpg")]

\* BlameData::new
BlameData(pass_filename, duration, found_previous) ==
    [pass_filename |-> pass_filename,
     duration |-> duration,
     found_previous |-> found_previous]

Ok(v) == [ok |-> TRUE, value |-> v]
Err(msg, arg) == [ok |-> FALSE, msg |-> msg, arg |-> arg]

----------------------------------------------------------------------------
(* The Blame Output Parser: the loop of get_password_age over             *)
(* git_stdout.lines().                                                     *)

\* the scan as it would be if it left the loop at the first author-time line
RECURSIVE ScanLines_StopAtAuthorTime(_, _, _, _, _)
ScanLines_StopAtAuthorTime(lines, i, duration, found_previous, t) ==
    IF i > Len(lines)
    THEN Ok([duration |-> duration, found_previous |-> found_previous])
    ELSE LET line == lines[i] IN
         IF StartsWith(line, AUTHOR_TIME)
         THEN LET toks == SplitAsciiWhitespace(line) IN
              IF toks = <<>>
              THEN Err("Unable to get author-time value from", line)
              ELSE LET author_time == toks[Len(toks)]
                       parsed == ParseTimestamp(author_time)
                   IN IF ~parsed.ok
                      THEN Err("Unable to parse timestamp", author_time)
                      ELSE Ok([duration |-> Some(t - parsed.value),
                               found_previous |-> found_previous])
         ELSE IF StartsWith(line, PREVIOUS)
              THEN ScanLines_StopAtAuthorTime(lines, i + 1, duration, TRUE, t)
              ELSE ScanLines_StopAtAuthorTime(lines, i + 1, duration,
                                              found_previous, t)

RECURSIVE ScanLines(_, _, _, _, _)
ScanLines(lines, i, duration, found_previous, t) ==
    IF i > Len(lines)
    THEN Ok([duration |-> duration, found_previous |-> found_previous])
    ELSE LET line == lines[i] IN
         IF StartsWith(line, AUTHOR_TIME)
         THEN LET toks == SplitAsciiWhitespace(line) IN
              IF toks = <<>>
              THEN Err("Unable to get author-time value from", line)
              ELSE LET author_time == toks[Len(toks)]
                       parsed == ParseTimestamp(author_time)
                   IN IF ~parsed.ok
                      THEN Err("Unable to parse timestamp", author_time)
                      ELSE ScanLines(lines, i + 1, Some(t - parsed.value),
                                     found_previous, t)
         ELSE IF StartsWith(line, PREVIOUS)
              THEN ScanLines(lines, i + 1, duration, TRUE, t)
              ELSE ScanLines(lines, i + 1, duration, found_previous, t)

\* the parse as it would be if a missing author-time defaulted to no elapsed
\* time instead of failing
ParseBlame_DefaultDuration(pass_filename, lines, t) ==
    LET scan == ScanLines(lines, 1, None, FALSE, t) IN
    IF ~scan.ok THEN scan
    ELSE Ok(BlameData(pass_filename,
                      IF scan.value.duration.some
                      THEN scan.value.duration.value ELSE 0,
                      scan.value.found_previous))

\* main.rs:70-97: the scan, then the record or "Unable to find the author-time"
ParseBlame(pass_filename, lines, t) ==
    LET scan == ScanLines(lines, 1, None, FALSE, t) IN
    IF ~scan.ok THEN scan
    ELSE IF scan.value.duration.some
         THEN Ok(BlameData(pass_filename, scan.value.duration.value,
                           scan.value.found_previous))
         ELSE Err("Unable to find the author-time", <<>>)

\* main.rs:39-60: the command line of the query
GitCommand(pass_filename, ignore_rev, ignore_revs_file, since) ==
    [program |-> "git",
     blame |-> <<"blame", "-pL", ",1">>,
     ignore_rev |-> ignore_rev,
     ignore_revs_file |-> ignore_revs_file,
     since |-> since,
     path |-> PushGpg(pass_filename)]

\* main.rs:62-98: what get_password_age returns when the query answers
\* `output` at time t
get_password_age(pass_filename, output, t) ==
    CASE output.kind = "spawn_error" -> Err("io", output.text)
      [] output.kind = "exit_nonzero" -> Err("git", output.text)
      [] output.kind = "invalid_utf8" -> Err("utf8", <<>>)
      [] output.kind = "stdout" -> ParseBlame(pass_filename, output.lines, t)

----------------------------------------------------------------------------
(* The command line. *)

\* clap's ArgAction::SetFalse (main.rs:134-136, args.rs:57-59): the field is
\* true unless the flag is given
SetFalse(flag_given) == ~flag_given

\* args.rs:15-18, 44-50: the flags of the "filter" group, of which at most
\* one is given
FilterGroup(filter) ==
    [only_unmodified |-> filter = "only_unmodified",
     only_modified |-> filter = "only_modified"]

\* Args::parse: the struct main consumes, main.rs:117-143, with the two
\* filter flags the command line declares.  No line of main reads them.
ParseArgs(cl) ==
    [ignore_rev |-> cl.ignore_rev,
     ignore_revs_file |-> cl.ignore_revs_file,
     since |-> cl.since,
     only_unmodified |-> FilterGroup(cl.filter).only_unmodified,
     only_modified |-> FilterGroup(cl.filter).only_modified,
     reverse |-> SetFalse(cl.reverse_given),
     sort_by |-> cl.sort_by,
     file |-> cl.file]

\* whether --reverse was given, read back from the parsed field
ReverseRequested == CHOOSE given \in BOOLEAN : SetFalse(given) = args.reverse

----------------------------------------------------------------------------
(* Targets and glob. *)

DirTarget == [kind |-> "dir", stem |-> 0]
FileTarget(k) == [kind |-> "file", stem |-> k]
MissingTarget == [kind |-> "missing", stem |-> 0]
BadTarget == [kind |-> "bad", stem |-> 0]

\* Path::is_dir
IsDir(target) == target.kind = "dir"

\* main.rs:204-217
ExpandTargets(file) ==
    IF file = <<>>
    THEN << [kind |-> "recursive", root |-> "."] >>
    ELSE [i \in 1..Len(file) |->
            IF IsDir(file[i])
            THEN [kind |-> "recursive", root |-> file[i]]
            ELSE [kind |-> "literal", target |-> file[i]]]

\* one item of the glob iterator: a path, or a GlobError for it
GlobItem(k, store) ==
    [ok |-> store[k].kind # "glob_error", path |-> GpgFile(k)]

\* the files a pattern matches, in the order glob yields them (ascending by
\* name).  Every file of the store lies under the one directory of the store.
Matches(pattern, store) ==
    LET n == Len(store) IN
    IF pattern.kind = "recursive"
    THEN [k \in 1..n |-> GlobItem(k, store)]
    ELSE IF pattern.target.kind = "file" /\ pattern.target.stem \in 1..n
         THEN << GlobItem(pattern.target.stem, store) >>
         ELSE <<>>

\* glob::glob: Err(PatternError) for a pattern that is not well formed
Glob(pattern, store) ==
    IF pattern.kind = "literal" /\ pattern.target.kind = "bad"
    THEN Err("Unable to search for .gpg files in", <<>>)
    ELSE Ok(Matches(pattern, store))

\* Iterator::take
Take(seq, n) == SubSeq(seq, 1, IF Len(seq) < n THEN Len(seq) ELSE n)

----------------------------------------------------------------------------
(* Sort, reverse, render. *)

\* slice::sort_by with a.duration.cmp(&b.duration): a stable ascending sort
RECURSIVE InsertByDuration(_, _)
InsertByDuration(sorted, x) ==
    IF sorted = <<>> THEN <<x>>
    ELSE IF Head(sorted).duration <= x.duration
         THEN <<Head(sorted)>> \o InsertByDuration(Tail(sorted), x)
         ELSE <<x>> \o sorted

RECURSIVE SortByDuration(_)
SortByDuration(seq) ==
    IF seq = <<>> THEN <<>>
    ELSE InsertByDuration(SortByDuration(SubSeq(seq, 1, Len(seq) - 1)),
                          seq[Len(seq)])

\* slice::reverse
Reverse(seq) == [i \in 1..Len(seq) |-> seq[Len(seq) + 1 - i]]

Abs(d) == IF d < 0 THEN -d ELSE d

\* HumanTime::from(duration).to_text_en(Accuracy::Rough, Tense::Past): the
\* magnitude of the duration in the past tense
Humanize(d) == [magnitude |-> Abs(d), tense |-> "ago"]

\* main.rs:262-279: the line printed for one record
RenderLine(blame_data, since) ==
    IF blame_data.found_previous
    THEN [kind |-> "last modified",
          path |-> blame_data.pass_filename,
          human |-> Some(Humanize(blame_data.duration)),
          since |-> None]
    ELSE [kind |-> "hasn't been updated",
          path |-> blame_data.pass_filename,
          human |-> None,
          since |-> since]

IsRenderLine(l) == l.kind \in {"last modified", "hasn't been updated"}

----------------------------------------------------------------------------
(* The inputs of a run. *)

Digits(cs) == AUTHOR_TIME \o SP \o cs

\* the lines a raw query output is made of
Lines ==
    { Digits(<<"6">>),                               \* author-time 6
      Digits(<<"1","2">>),                           \* author-time 12
      AUTHOR_TIME,                                   \* author-time
      Digits(<<"1","x">>),                           \* author-time 1x
      AUTHOR_TIME \o <<"\t","z"," ","2">>,           \* author-time<TAB>z 2
      PREVIOUS \o <<" ","c"," ","f">>,               \* previous c f
      <<"a","u","t","h","o","r","-","t","z"," ","0">>,   \* author-tz 0
      <<"s","u","m"," ">> \o PREVIOUS }              \* sum previous

Texts(n) == UNION { [1..m -> Lines] : m \in 0..n }

Stdout(lines) == [kind |-> "stdout", lines |-> lines]
ExitNonzero == [kind |-> "exit_nonzero", text |-> "fatal: no such path in HEAD"]
SpawnError == [kind |-> "spawn_error", text |-> "No such file or directory"]
InvalidUtf8 == [kind |-> "invalid_utf8"]
GlobError == [kind |-> "glob_error"]

\* every answer of the query adapter for one file
AllOutputs ==
    { Stdout(t) : t \in Texts(MaxLines) }
        \cup {ExitNonzero, SpawnError, InvalidUtf8, GlobError}

\* the answers drawn for the files of a store of several files
CoreOutputs ==
    { Stdout(<< Digits(<<"6">>) >>),
      Stdout(<< Digits(<<"6">>), PREVIOUS \o <<" ","c"," ","f">> >>),
      Stdout(<< Digits(<<"2">>), PREVIOUS \o <<" ","c"," ","f">> >>),
      Stdout(<< Digits(<<"9">>) >>),
      Stdout(<< PREVIOUS \o <<" ","c"," ","f">> >>),
      ExitNonzero }

\* the answers drawn for the files of the largest stores
PlainOutputs == { Stdout(<< Digits(<<"6">>) >>), ExitNonzero }

OutputsFor(n) ==
    IF n <= 1 THEN AllOutputs
    ELSE IF n <= MaxRichFiles THEN CoreOutputs ELSE PlainOutputs

Stores == UNION { [1..n -> OutputsFor(n)] : n \in 0..MaxFiles }

\* Utc::now(), read when an author-time line is parsed; the runs modelled are
\* short enough for every reading of one run to give the same second
Clocks == {10}
Sinces == {None, Some(4)}
Filters == {"none", "only_unmodified", "only_modified"}
SortBys == {"Name", "Time"}

\* the target arguments drawn for the stores of several files
TargetLists ==
    { <<>>, <<DirTarget>>, <<FileTarget(1)>>, <<MissingTarget>>,
      <<FileTarget(1), FileTarget(2)>>, <<FileTarget(2), FileTarget(1)>>,
      <<FileTarget(1), FileTarget(1)>>, <<DirTarget, FileTarget(1)>>,
      <<FileTarget(2), BadTarget>>, <<BadTarget, FileTarget(1)>>,
      <<MissingTarget, FileTarget(2)>> }

CommandLine(since, filter, reverse_given, sort_by, file) ==
    [ignore_rev |-> <<>>,
     ignore_revs_file |-> <<>>,
     since |-> since,
     filter |-> filter,
     reverse_given |-> reverse_given,
     sort_by |-> sort_by,
     file |-> file]

CommandLinesFor(n) ==
    IF n <= 1
    THEN { CommandLine(s, "none", FALSE, "Name", <<>>) : s \in Sinces }
    ELSE IF n <= MaxRichFiles
    THEN { CommandLine(s, f, r, k, t) :
             s \in Sinces, f \in Filters, r \in BOOLEAN, k \in SortBys,
             t \in TargetLists }
    ELSE { CommandLine(None, "none", r, "Name", t) :
             r \in BOOLEAN,
             t \in { <<>>, <<DirTarget, FileTarget(1)>> } }

----------------------------------------------------------------------------
(* The run. *)

Init ==
    /\ blame \in Stores
    /\ args \in { ParseArgs(cl) : cl \in CommandLinesFor(Len(blame)) }
    /\ env \in IF Len(blame) = 0
               THEN {"ok", "no_store_dir_var", "no_chdir", "no_git"}
               ELSE {"ok"}
    /\ now \in Clocks
    /\ pc = "start"
    /\ search_paths = <<>>
    /\ entries = <<>>
    /\ data = <<>>
    /\ stdout = <<>>
    /\ stderr = <<>>
    /\ queries = <<>>

\* main.rs:153-200: PASSWORD_STORE_DIR, Args::parse and its debug print, the
\* change of directory and the test for .git
Preflight ==
    /\ pc = "start"
    /\ IF env = "no_store_dir_var"
       THEN /\ pc' = "failed"
            /\ stderr' = Append(stderr, Err("Unable to get PASSWORD_STORE_DIR", <<>>))
            /\ UNCHANGED stdout
       ELSE /\ stdout' = Append(stdout, [kind |-> "args", args |-> args])
            /\ CASE env = "no_chdir" ->
                      /\ pc' = "exit1"
                      /\ stderr' = Append(stderr,
                            Err("Unable to changed working directory to", <<>>))
                 [] env = "no_git" ->
                      /\ pc' = "exit1"
                      /\ stderr' = stderr \o
                            << Err("Unable to find", <<>>),
                               Err("Please make sure you have run pass git init", <<>>) >>
                 [] env = "ok" ->
                      /\ pc' = "expand"
                      /\ UNCHANGED stderr
    /\ UNCHANGED <<args, env, blame, now, search_paths, entries, data, queries>>

\* main.rs:202-219
ExpandArgs ==
    /\ pc = "expand"
    /\ search_paths' = ExpandTargets(args.file)
    /\ data' = <<>>
    /\ pc' = "collect"
    /\ UNCHANGED <<args, env, blame, now, entries, stdout, stderr, queries>>

\* main.rs:221-230: pop the last pattern and start its glob, or leave the loop
NextSearchPath ==
    /\ pc = "collect"
    /\ IF search_paths = <<>>
       THEN /\ pc' = "sort"
            /\ UNCHANGED <<search_paths, entries, stdout, stderr>>
       ELSE LET search_path == search_paths[Len(search_paths)]
                found == Glob(search_path, blame)
            IN /\ search_paths' = SubSeq(search_paths, 1, Len(search_paths) - 1)
               /\ stdout' = Append(stdout,
                      [kind |-> "Searching", search_path |-> search_path])
               /\ IF found.ok
                  THEN /\ entries' = Take(found.value, TakeLimit)
                       /\ pc' = "glob"
                       /\ UNCHANGED stderr
                  ELSE /\ pc' = "failed"
                       /\ stderr' = Append(stderr, found)
                       /\ UNCHANGED entries
    /\ UNCHANGED <<args, env, blame, now, data, queries>>

\* the step as it would be if the error of get_password_age were propagated
\* with `?` instead of matched
QueryEntry_Propagate ==
    /\ pc = "glob"
    /\ entries # <<>>
    /\ Head(entries).ok
    /\ LET entry == Head(entries).path
           pass_filename == WithExtensionEmpty(entry)
           result == get_password_age(pass_filename, blame[entry.stem], now)
       IN /\ queries' = Append(queries,
                 GitCommand(pass_filename, args.ignore_rev,
                            args.ignore_revs_file, args.since))
          /\ IF result.ok
             THEN /\ data' = Append(data, result.value)
                  /\ pc' = pc
                  /\ UNCHANGED stderr
             ELSE /\ stderr' = Append(stderr, result)
                  /\ pc' = "failed"
                  /\ UNCHANGED data
    /\ entries' = Tail(entries)
    /\ UNCHANGED <<args, env, blame, now, search_paths, stdout>>

\* main.rs:232-245: one Ok entry: the query, then the record or the report
QueryEntry ==
    /\ pc = "glob"
    /\ entries # <<>>
    /\ Head(entries).ok
    /\ LET entry == Head(entries).path
           pass_filename == WithExtensionEmpty(entry)
           result == get_password_age(pass_filename, blame[entry.stem], now)
       IN /\ queries' = Append(queries,
                 GitCommand(pass_filename, args.ignore_rev,
                            args.ignore_revs_file, args.since))
          /\ IF result.ok
             THEN /\ data' = Append(data, result.value)
                  /\ UNCHANGED stderr
             ELSE /\ stderr' = Append(stderr, result)
                  /\ UNCHANGED data
    /\ entries' = Tail(entries)
    /\ UNCHANGED <<args, env, blame, now, pc, search_paths, stdout>>

\* main.rs:246: one Err entry of the glob iterator
SkipGlobError ==
    /\ pc = "glob"
    /\ entries # <<>>
    /\ ~Head(entries).ok
    /\ stderr' = Append(stderr, Err("glob", Head(entries).path))
    /\ entries' = Tail(entries)
    /\ UNCHANGED <<args, env, blame, now, pc, search_paths, data, stdout, queries>>

\* main.rs:223-248: the glob iterator is exhausted
EndOfSearchPath ==
    /\ pc = "glob"
    /\ entries = <<>>
    /\ pc' = "collect"
    /\ UNCHANGED <<args, env, blame, now, search_paths, entries, data, stdout,
                   stderr, queries>>

\* main.rs:251-255
Sort ==
    /\ pc = "sort"
    /\ data' = IF args.sort_by = "Time" THEN SortByDuration(data) ELSE data
    /\ pc' = "reverse"
    /\ UNCHANGED <<args, env, blame, now, search_paths, entries, stdout, stderr,
                   queries>>

\* main.rs:257-259
ReverseData ==
    /\ pc = "reverse"
    /\ data' = IF args.reverse THEN Reverse(data) ELSE data
    /\ pc' = "render"
    /\ UNCHANGED <<args, env, blame, now, search_paths, entries, stdout, stderr,
                   queries>>

\* main.rs:261-280: pop one record and print its line
Render ==
    /\ pc = "render"
    /\ data # <<>>
    /\ stdout' = Append(stdout, RenderLine(data[Len(data)], args.since))
    /\ data' = SubSeq(data, 1, Len(data) - 1)
    /\ UNCHANGED <<args, env, blame, now, pc, search_paths, entries, stderr,
                   queries>>

\* main.rs:261, 281: the list is empty, Ok(())
Finish ==
    /\ pc = "render"
    /\ data = <<>>
    /\ pc' = "done"
    /\ UNCHANGED <<args, env, blame, now, search_paths, entries, data, stdout,
                   stderr, queries>>

Next ==
    \/ Preflight
    \/ ExpandArgs
    \/ NextSearchPath
    \/ QueryEntry
    \/ SkipGlobError
    \/ EndOfSearchPath
    \/ Sort
    \/ ReverseData
    \/ Render
    \/ Finish

Spec == Init /\ [][Next]_vars

----------------------------------------------------------------------------
(* Vocabulary of the properties. *)

IsAuthorTimeLine(line) == StartsWith(line, AUTHOR_TIME)
IsPreviousLine(line) == StartsWith(line, PREVIOUS)

\* the final whitespace-separated field of a line, read from its end
RECURSIVE TrimEnd(_)
TrimEnd(line) ==
    IF line # <<>> /\ line[Len(line)] \in {" ", "\t"}
    THEN TrimEnd(SubSeq(line, 1, Len(line) - 1))
    ELSE line

RECURSIVE FieldAtEnd(_)
FieldAtEnd(line) ==
    IF line = <<>> \/ line[Len(line)] \in {" ", "\t"}
    THEN <<>>
    ELSE Append(FieldAtEnd(SubSeq(line, 1, Len(line) - 1)), line[Len(line)])

FinalField(line) == FieldAtEnd(TrimEnd(line))

IsNumeral(tok) ==
    /\ tok # <<>>
    /\ \A i \in 1..Len(tok) : tok[i] \in {"0","1","2","3","4","5","6","7","8","9"}

WellFormedAuthorTime(line) == IsAuthorTimeLine(line) /\ IsNumeral(FinalField(line))
MalformedAuthorTime(line) == IsAuthorTimeLine(line) /\ ~IsNumeral(FinalField(line))

Range(seq) == { seq[i] : i \in DOMAIN seq }

\* the step issues one history query
QueryIssued == Len(queries') = Len(queries) + 1

\* the file the step queries, and what the query answers
QueriedStem == queries'[Len(queries')].path.stem
QueriedOutput == blame[QueriedStem]
QueriedText == QueriedOutput.lines

TextQueried == QueryIssued /\ QueriedOutput.kind = "stdout"

OneRecordAdded == Len(data') = Len(data) + 1 /\ SubSeq(data', 1, Len(data)) = data
OneErrorReported ==
    Len(stderr') = Len(stderr) + 1 /\ SubSeq(stderr', 1, Len(stderr)) = stderr

PastCollection == pc \in {"sort", "reverse", "render", "done"}

RenderedLines == SelectSeq(stdout, IsRenderLine)

\* the step prints the line of the record at the end of the list
Rendering == pc = "render" /\ data # <<>> /\ data' # data
PoppedRecord == data[Len(data)]
LinesPrinted == SubSeq(stdout', Len(stdout) + 1, Len(stdout'))

----------------------------------------------------------------------------
C2_RenderRule ==
    [][ Rendering =>
            LET r == PoppedRecord
                out == LinesPrinted
            IN IF r.found_previous /\ ~args.only_unmodified
               THEN /\ Len(out) = 1
                    /\ out[1].kind = "last modified"
                    /\ out[1].path = r.pass_filename
                    /\ out[1].human = Some(Humanize(r.duration))
               ELSE IF ~r.found_previous /\ ~args.only_modified
               THEN /\ Len(out) = 1
                    /\ out[1].kind # "last modified"
                    /\ out[1].path = r.pass_filename
                    /\ out[1].human = Some(Humanize(r.duration))
               ELSE out = <<>>
      ]_vars

(* C3, as stated: whenever the raw text holds an author-time line with a   *)
(* numeric timestamp, the parse succeeds and has_history is true exactly   *)
(* when some line begins with the previous marker.                         *)
C3_HistoryFlagAnyText ==
    [][ (TextQueried /\ \E l \in Range(QueriedText) : WellFormedAuthorTime(l)) =>
            /\ OneRecordAdded
            /\ data'[Len(data')].found_previous
                  = (\E l \in Range(QueriedText) : IsPreviousLine(l))
      ]_vars

(* C3, amended: whenever the raw text holds at least one author-time line  *)
(* and every author-time line of it carries a numeric timestamp, the parse *)
(* succeeds and has_history is true exactly when some line begins with    *)
(* the previous marker, before or after the author-time line.             *)
C3_HistoryFlag ==
    [][ ( /\ TextQueried
          /\ \E l \in Range(QueriedText) : WellFormedAuthorTime(l)
          /\ \A l \in Range(QueriedText) : ~MalformedAuthorTime(l) ) =>
            /\ OneRecordAdded
            /\ data'[Len(data')].pass_filename.stem = QueriedStem
            /\ data'[Len(data')].found_previous
                  = (\E l \in Range(QueriedText) : IsPreviousLine(l))
            /\ stderr' = stderr
      ]_vars

\* a record with history was collected and printed from a text whose
\* previous line follows its author-time line
C3_Witness ==
    /\ PastCollection
    /\ \E k \in DOMAIN blame :
          /\ blame[k].kind = "stdout"
          /\ \E a, b \in DOMAIN blame[k].lines :
                /\ a < b
                /\ WellFormedAuthorTime(blame[k].lines[a])
                /\ IsPreviousLine(blame[k].lines[b])
          /\ \E r \in Range(RenderedLines) :
                r.path.stem = k /\ r.kind = "last modified"

\* the messages of the malformed-author-time failures
MalformedMessages ==
    { ParseBlame(GpgFile(0), <<l>>, 0).msg : l \in { m \in Lines : MalformedAuthorTime(m) } }

(* C4: whenever the raw text holds no author-time line (empty text and    *)
(* text with a previous line included), the parse fails with "author-time *)
(* not found", a message no malformed author-time line produces, and no   *)
(* record is collected for the file.                                       *)
C4_AuthorTimeNotFound ==
    [][ (TextQueried /\ \A l \in Range(QueriedText) : ~IsAuthorTimeLine(l)) =>
            /\ data' = data
            /\ OneErrorReported
            /\ stderr'[Len(stderr')].msg = "Unable to find the author-time"
            /\ stderr'[Len(stderr')].msg \notin MalformedMessages
            /\ MalformedMessages # {}
            /\ \A r \in Range(data') : r.pass_filename.stem # QueriedStem
      ]_vars

\* the run of a store whose only file answers with a previous line and no
\* author-time line has reported the failure and collected nothing
C4_Witness ==
    /\ pc = "sort"
    /\ Len(blame) = 1
    /\ blame[1].kind = "stdout"
    /\ \E l \in Range(blame[1].lines) : IsPreviousLine(l)
    /\ \A l \in Range(blame[1].lines) : ~IsAuthorTimeLine(l)
    /\ Len(queries) = 1
    /\ data = <<>>
    /\ \E e \in Range(stderr) : e.msg = "Unable to find the author-time"

(* C5: whenever the raw text holds a malformed author-time line, the      *)
(* parse fails with an error naming the whole offending line, and no      *)
(* record is produced, a later well-formed author-time line               *)
(* notwithstanding.                                                        *)
C5_MalformedNamesLine ==
    [][ (TextQueried /\ \E l \in Range(QueriedText) : MalformedAuthorTime(l)) =>
            /\ data' = data
            /\ OneErrorReported
            /\ \E l \in Range(QueriedText) :
                  MalformedAuthorTime(l) /\ stderr'[Len(stderr')].arg = l
      ]_vars

\* the query or the parse of a discovered entry fails
EntryFails(e) ==
    LET o == blame[e.path.stem] IN
    \/ ~e.ok
    \/ o.kind # "stdout"
    \/ \A l \in Range(o.lines) : ~IsAuthorTimeLine(l)
    \/ \E l \in Range(o.lines) : MalformedAuthorTime(l)

EntrySucceeds(e) == ~EntryFails(e)

\* the entries the collection loop draws from the patterns, last pattern
\* first, and those of them whose query and parse succeed
RECURSIVE DiscoveredFrom(_)
DiscoveredFrom(patterns) ==
    IF patterns = <<>> THEN <<>>
    ELSE Take(Matches(patterns[Len(patterns)], blame), TakeLimit)
            \o DiscoveredFrom(SubSeq(patterns, 1, Len(patterns) - 1))

Discovered == DiscoveredFrom(ExpandTargets(args.file))
Succeeded == SelectSeq(Discovered, EntrySucceeds)

Stems(records) == [i \in DOMAIN records |-> records[i].pass_filename.stem]

(* C6: a failing query or parse of a discovered file is reported and only *)
(* that file is omitted: the step leaves the loop where it was, with the  *)
(* rest of the pattern and the remaining patterns still to come; the run  *)
(* is abandoned only before collection or by a pattern glob rejects; it   *)
(* comes to the sort with the records of all the discovered files that    *)
(* succeeded, those after a failure included, and ends having printed one *)
(* line for each.                                                          *)
C6_PerFileFailureSkipsOnlyThatFile ==
    /\ [][ (pc = "glob" /\ entries # <<>> /\ EntryFails(Head(entries))) =>
              /\ pc' = "glob"
              /\ entries' = Tail(entries)
              /\ search_paths' = search_paths
              /\ data' = data
              /\ OneErrorReported
         ]_vars
    /\ [][ (pc' \in {"failed", "exit1"}) =>
              \/ pc = "start"
              \/ /\ pc = "collect"
                 /\ search_paths # <<>>
                 /\ ~Glob(search_paths[Len(search_paths)], blame).ok
         ]_vars
    /\ [](pc = "sort" =>
              Stems(data) = [i \in DOMAIN Succeeded |-> Succeeded[i].path.stem])
    /\ [](pc = "done" => Len(RenderedLines) = Len(Succeeded))

\* a run whose first query failed went on to query another file and
\* printed its line
C6_Witness ==
    /\ pc = "done"
    /\ Len(queries) >= 2
    /\ EntryFails([ok |-> TRUE, path |-> [stem |-> queries[1].path.stem, ext |-> <<"gpg">>]])
    /\ stderr # <<>>
    /\ RenderedLines # <<>>

(* C7: when the sort begins, every file matched by any target pattern has *)
(* been queried (and so has produced a record or a reported error); none  *)
(* is left unqueried.                                                      *)
C7_EveryMatchHandled ==
    PastCollection =>
        \A p \in Range(ExpandTargets(args.file)) :
            \A item \in Range(Matches(p, blame)) :
                \/ \E q \in Range(queries) : q.path = item.path
                \/ \E e \in Range(stderr) : e.msg = "glob" /\ e.arg = item.path

(* C8: the collected list never holds two records with the same path,     *)
(* whatever the target arguments, and no path is printed twice.           *)
C8_OneRecordPerFile ==
    /\ \A i, j \in DOMAIN data :
          i # j => data[i].pass_filename # data[j].pass_filename
    /\ \A i, j \in DOMAIN RenderedLines :
          i # j => RenderedLines[i].path # RenderedLines[j].path

(* C9: with sort key "name" and distinct paths, the printed lines are in  *)
(* ascending order of the stripped path when no reverse is requested and  *)
(* in descending order when it is, whatever the target arguments and      *)
(* their order.                                                            *)
C9_NameOrder ==
    LET out == RenderedLines IN
    ( /\ pc = "done"
      /\ args.sort_by = "Name"
      /\ \A i, j \in DOMAIN out : i # j => out[i].path # out[j].path ) =>
        \A i, j \in DOMAIN out :
            i < j => IF ReverseRequested
                     THEN out[i].path.stem > out[j].path.stem
                     ELSE out[i].path.stem < out[j].path.stem

(* C10: with neither filter selected, a since-duration changes nothing:   *)
(* the queries issued and the lines printed are those of the run without  *)
(* it.                                                                     *)
C10_SinceWithoutFilterIsInert ==
    (~args.only_unmodified /\ ~args.only_modified) =>
        /\ \A q \in Range(queries) :
              q = GitCommand(WithExtensionEmpty(q.path), args.ignore_rev,
                             args.ignore_revs_file, None)
        /\ \A l \in Range(RenderedLines) : l.since = None

====
